---- MODULE Spec2Model ----
(***************************************************************************)
(* nrfeed, server/views.py: the cache-refresh pipeline behind              *)
(* /podcast/<id>.  Worker threads, grouped in worker processes on one      *)
(* host, call feed(name) through the ten-second lru_cache wrapper; a stale *)
(* cache file makes the worker bind the abstract-namespace lock socket,    *)
(* fetch the source page through the sixty-second lru_cache wrapper,       *)
(* render it, write the cache file and close the socket.                   *)
(***************************************************************************)
EXTENDS Integers, FiniteSets, Sequences, TLC

VARIABLES
    now,        \* time.monotonic(), in whole seconds (host-wide clock)
    started,    \* the clock when the workers began to take requests
    ticks,      \* how many times the clock has advanced
    proc,       \* worker thread -> worker process it runs in
    feeds,      \* the names in feeds.json, as get_feeds() loaded them
    store,      \* feed name -> the file /dev/shm/nrfeed_<name>.json
    lock,       \* feed name -> who holds the socket bound to '\0nrfeed_<name>'
    srcMemo,    \* process -> url -> response memoised by get_source_url
    srcExp,     \* process -> get_source_url.expiration
    feedMemo,   \* process -> feed name -> response memoised by feed
    feedExp,    \* process -> feed.expiration
    feedMemoAt, \* process -> feed name -> the clock when feed's memo stored the
                \* entry (NotStored while there is none)
    netCount,   \* url -> number of requests.get calls sent to it
    pc,         \* worker -> position in podcast/feed
    arg,        \* worker -> the name feed was called with
    cache,      \* worker -> the local Cache object of feed
    req,        \* worker -> the local req of feed
    viaNet,     \* worker -> this call sent a request to the origin
    ret         \* worker -> outcome of the request the worker finished last,
                \* none while it is handling one

vars == <<now, started, ticks, proc, feeds, store, lock, srcMemo, srcExp, feedMemo, feedExp,
          feedMemoAt, netCount, pc, arg, cache, req, viaNet, ret>>

-----------------------------------------------------------------------------
(* Bounds of the model *)

MaxTicks == 1
MaxFetches == 2

Workers == {"w1", "w2"}
Procs == {"p1", "p2"}
Names == {"npr", "mkt"}
TickSteps == {50, 301}
StartTimes == {20, 400}
ImportAges == {0, 20}
\* what the origin serves now: a page that renders (the earlier files hold
\* "P1", the page of an earlier refresh), or one that lacks the markup
Pages == {"P2", "Bad"}

(* Program constants *)

CACHE_TIMEOUT == 300
SOURCE_WINDOW == 60
FEED_WINDOW == 10
DEFAULT_TIMESTAMP == 0

None == "None"
Free == "free"
Orphan == "orphan"
NotStored == -1

-----------------------------------------------------------------------------
(* Values *)

\* feeds.json: every feed has its own source url
UrlOf(n) == n

\* Cache.__init__: raw = None, rss = None, timestamp = 0
NewCache == [raw |-> None, rss |-> None, timestamp |-> DEFAULT_TIMESTAMP]

\* Cache.age: int(time.monotonic() - self.timestamp)
Age(c, t) == t - c.timestamp

\* the document replaced, the timestamp of the loaded entry kept
SetRssKeepsStamp(c, text, t) == [c EXCEPT !.rss = text]

\* the timestamp taken, the document left as it was
SetRssStampOnly(c, text, t) == [c EXCEPT !.timestamp = t]

\* Cache.set_rss: rss = text, timestamp = time.monotonic()
SetRss(c, text, t) == [c EXCEPT !.rss = text, !.timestamp = t]

\* outcomes of a request: a response carrying a document, or an exception
Doc(r) == [kind |-> "ok", body |-> r]
Exc(e) == [kind |-> "error", body |-> e]
NoOutcome == [kind |-> "none", body |-> None]

\* a response built from whatever the entry holds, None included
ResponseUnchecked(c) == Doc(c.rss)

\* Cache.response: make_response(self.rss); make_response(None) raises TypeError
Response(c) == IF c.rss = None THEN Exc("TypeError") ELSE Doc(c.rss)

\* generate_rss: soup.title.text.split(':') and get_items raise on a page that
\* lacks the expected markup; otherwise the rendered template
CanRender(raw) == raw \in {"P1", "P2"}
GenerateRss(raw) == IF raw = "P1" THEN "R1" ELSE "R2"

\* requests.Response as get_source_url returns it
OkResp(p) == [ok |-> TRUE, text |-> p]
BadResp == [ok |-> FALSE, text |-> "status"]
NoResp == [ok |-> FALSE, text |-> None]

\* the cache file: missing, opened for writing and not yet written, or written
NoFile == [file |-> "absent", obj |-> NewCache]
Truncated == [file |-> "truncated", obj |-> NewCache]
Written(c) == [file |-> "written", obj |-> c]

-----------------------------------------------------------------------------
(* The lru_cache(timeout) wrapper, lines 25-41: one expiration instant for  *)
(* the whole decorated function; when it has passed, the next call clears   *)
(* every memoised result and moves the instant to now + delta.              *)

\* the expiration instant never looked at
ExpiredNever(exp) == FALSE

Expired(exp) == now >= exp
MemoAfterCheck(memo, exp, empty) ==
    IF Expired(exp) THEN [k \in DOMAIN memo |-> empty] ELSE memo
ExpAfterCheck(exp, delta) == IF Expired(exp) THEN now + delta ELSE exp

\* a bind that never raises (as with a per-call address, or a plain file)
LockFreeUnchecked(n) == TRUE

\* lock_socket.bind succeeds iff no open socket is bound to the address
LockFree(n) == lock[n] = Free

\* the files a host can hold when the workers start: none, or one written by
\* an earlier refresh (save_cache runs only after set_rss)
EarlierFiles(t) ==
    {NoFile} \cup
    {Written([raw |-> "P1", rss |-> "R1", timestamp |-> s]) :
        s \in {x \in {50} : x <= t}}

ProcMaps == {f \in [Workers -> Procs] : f["w1"] = "p1"}

\* the module is imported (lines 29, 114, 204) some time before the first
\* request: expiration = import time + delta, nothing memoised yet
InitWith(registry) ==
    /\ now \in StartTimes
    /\ started = now
    /\ ticks = 0
    /\ proc \in ProcMaps
    /\ feeds = registry
    /\ store \in {f \in [Names -> EarlierFiles(now)] :
                      \A n \in Names \ registry : f[n] = NoFile}
    /\ lock = [n \in Names |-> Free]
    /\ srcMemo = [p \in Procs |-> [n \in Names |-> NoResp]]
    /\ feedMemo = [p \in Procs |-> [n \in Names |-> NoOutcome]]
    /\ feedMemoAt = [p \in Procs |-> [n \in Names |-> NotStored]]
    /\ \E a \in ImportAges :
          /\ srcExp = [p \in Procs |-> now - a + SOURCE_WINDOW]
          /\ feedExp = [p \in Procs |-> now - a + FEED_WINDOW]
    /\ netCount = [n \in Names |-> 0]
    /\ pc = [w \in Workers |-> "idle"]
    /\ arg = [w \in Workers |-> None]
    /\ cache = [w \in Workers |-> NewCache]
    /\ req = [w \in Workers |-> NoResp]
    /\ viaNet = [w \in Workers |-> FALSE]
    /\ ret = [w \in Workers |-> NoOutcome]

Init == InitWith({"npr"})

\* a host with both feeds registered, some minutes after boot: both cache
\* files written by a refresh 50 before the workers start, the module just
\* imported, both workers threads of one process
InitTwoFeeds ==
    /\ now = 400
    /\ started = now
    /\ ticks = 0
    /\ proc = [w \in Workers |-> "p1"]
    /\ feeds = Names
    /\ store = [n \in Names |->
                   Written([raw |-> "P1", rss |-> "R1", timestamp |-> now - 50])]
    /\ lock = [n \in Names |-> Free]
    /\ srcMemo = [p \in Procs |-> [n \in Names |-> NoResp]]
    /\ feedMemo = [p \in Procs |-> [n \in Names |-> NoOutcome]]
    /\ feedMemoAt = [p \in Procs |-> [n \in Names |-> NotStored]]
    /\ srcExp = [p \in Procs |-> now + SOURCE_WINDOW]
    /\ feedExp = [p \in Procs |-> now + FEED_WINDOW]
    /\ netCount = [n \in Names |-> 0]
    /\ pc = [w \in Workers |-> "idle"]
    /\ arg = [w \in Workers |-> None]
    /\ cache = [w \in Workers |-> NewCache]
    /\ req = [w \in Workers |-> NoResp]
    /\ viaNet = [w \in Workers |-> FALSE]
    /\ ret = [w \in Workers |-> NoOutcome]

-----------------------------------------------------------------------------
(* Leaving feed(name) *)

\* functools.lru_cache stores what the body returned; a raised exception is
\* not stored.  The frame's locals die with the call.
Leave(w, out) ==
    /\ ret' = [ret EXCEPT ![w] = out]
    /\ feedMemo' = IF out.kind = "ok"
                   THEN [feedMemo EXCEPT ![proc[w]][arg[w]] = out]
                   ELSE feedMemo
    /\ feedMemoAt' = IF out.kind = "ok"
                     THEN [feedMemoAt EXCEPT ![proc[w]][arg[w]] = now]
                     ELSE feedMemoAt
    /\ pc' = [pc EXCEPT ![w] = "idle"]
    /\ arg' = [arg EXCEPT ![w] = None]
    /\ cache' = [cache EXCEPT ![w] = NewCache]
    /\ req' = [req EXCEPT ![w] = NoResp]
    /\ viaNet' = [viaNet EXCEPT ![w] = FALSE]

\* leaving between bind and lock_socket.close(): nothing closes the socket;
\* it stays bound until the interpreter finalises the unreferenced object
Abandon(w) == lock' = [lock EXCEPT ![arg[w]] = Orphan]

-----------------------------------------------------------------------------
(* podcast(_id) -> feed(name) through lru_cache(10), lines 32-36, 203-205 *)

CallHit(w, n) ==
    /\ pc[w] = "idle"
    /\ LET p == proc[w]
           memo == MemoAfterCheck(feedMemo[p], feedExp[p], NoOutcome)
       IN /\ memo[n] # NoOutcome
          /\ feedExp' = [feedExp EXCEPT ![p] = ExpAfterCheck(feedExp[p], FEED_WINDOW)]
          /\ feedMemo' = [feedMemo EXCEPT ![p] = memo]
          /\ feedMemoAt' = [feedMemoAt EXCEPT ![p] =
                                MemoAfterCheck(feedMemoAt[p], feedExp[p], NotStored)]
          /\ ret' = [ret EXCEPT ![w] = memo[n]]
    /\ UNCHANGED <<now, started, ticks, proc, feeds, store, lock, srcMemo, srcExp, netCount,
                   pc, arg, cache, req, viaNet>>

CallMiss(w, n) ==
    /\ pc[w] = "idle"
    /\ LET p == proc[w]
           memo == MemoAfterCheck(feedMemo[p], feedExp[p], NoOutcome)
       IN /\ memo[n] = NoOutcome
          /\ feedExp' = [feedExp EXCEPT ![p] = ExpAfterCheck(feedExp[p], FEED_WINDOW)]
          /\ feedMemo' = [feedMemo EXCEPT ![p] = memo]
          /\ feedMemoAt' = [feedMemoAt EXCEPT ![p] =
                                MemoAfterCheck(feedMemoAt[p], feedExp[p], NotStored)]
    /\ pc' = [pc EXCEPT ![w] = "load"]
    /\ arg' = [arg EXCEPT ![w] = n]
    /\ ret' = [ret EXCEPT ![w] = NoOutcome]
    /\ UNCHANGED <<now, started, ticks, proc, feeds, store, lock, srcMemo, srcExp, netCount,
                   cache, req, viaNet>>

(* lines 212-220: load the cache file, serve it when it is young enough *)

\* load_cache: jsonpickle.decode of what the file holds now; a missing file is
\* FileNotFoundError (caught: Cache(name)), an unfinished one does not decode
Loaded(n) == IF store[n].file = "written" THEN store[n].obj ELSE NewCache
\* the timeout taken for minutes where the age is in seconds
FreshMinutes(c) == Age(c, now) * 60 <= CACHE_TIMEOUT
Fresh(c) == Age(c, now) <= CACHE_TIMEOUT

LoadUndecodable(w) ==
    /\ pc[w] = "load"
    /\ store[arg[w]].file = "truncated"
    /\ Leave(w, Exc("JSONDecodeError"))
    /\ UNCHANGED <<now, started, ticks, proc, feeds, store, lock, srcMemo, srcExp, feedExp,
                   netCount>>

LoadFresh(w) ==
    /\ pc[w] = "load"
    /\ store[arg[w]].file # "truncated"
    /\ Fresh(Loaded(arg[w]))
    /\ Leave(w, Response(Loaded(arg[w])))
    /\ UNCHANGED <<now, started, ticks, proc, feeds, store, lock, srcMemo, srcExp, feedExp,
                   netCount>>

LoadStale(w) ==
    /\ pc[w] = "load"
    /\ store[arg[w]].file # "truncated"
    /\ ~Fresh(Loaded(arg[w]))
    /\ cache' = [cache EXCEPT ![w] = Loaded(arg[w])]
    /\ pc' = [pc EXCEPT ![w] = "lock"]
    /\ UNCHANGED <<now, started, ticks, proc, feeds, store, lock, srcMemo, srcExp, feedMemo, feedMemoAt,
                   feedExp, netCount, arg, req, viaNet, ret>>

(* lines 223-230: bind the lock socket, or serve what was loaded *)

BindOk(w) ==
    /\ pc[w] = "lock"
    /\ LockFree(arg[w])
    /\ lock' = [lock EXCEPT ![arg[w]] = w]
    /\ pc' = [pc EXCEPT ![w] = "fetch"]
    /\ UNCHANGED <<now, started, ticks, proc, feeds, store, srcMemo, srcExp, feedMemo, feedMemoAt, feedExp,
                   netCount, arg, cache, req, viaNet, ret>>

BindFails(w) ==
    /\ pc[w] = "lock"
    /\ ~LockFree(arg[w])
    /\ Leave(w, Response(cache[w]))
    /\ UNCHANGED <<now, started, ticks, proc, feeds, store, lock, srcMemo, srcExp, feedExp,
                   netCount>>

(* line 233, get_source_url through lru_cache(60), lines 32-36, 113-116 *)

FetchHit(w) ==
    /\ pc[w] = "fetch"
    /\ LET p == proc[w]
           u == UrlOf(arg[w])
           memo == MemoAfterCheck(srcMemo[p], srcExp[p], NoResp)
       IN /\ memo[u] # NoResp
          /\ srcExp' = [srcExp EXCEPT ![p] = ExpAfterCheck(srcExp[p], SOURCE_WINDOW)]
          /\ srcMemo' = [srcMemo EXCEPT ![p] = memo]
          /\ req' = [req EXCEPT ![w] = memo[u]]
    /\ pc' = [pc EXCEPT ![w] = "got"]
    /\ UNCHANGED <<now, started, ticks, proc, feeds, store, lock, feedMemo, feedMemoAt, feedExp, netCount,
                   arg, cache, viaNet, ret>>

FetchMiss(w) ==
    /\ pc[w] = "fetch"
    /\ netCount[UrlOf(arg[w])] < MaxFetches
    /\ LET p == proc[w]
           u == UrlOf(arg[w])
           memo == MemoAfterCheck(srcMemo[p], srcExp[p], NoResp)
       IN /\ memo[u] = NoResp
          /\ srcExp' = [srcExp EXCEPT ![p] = ExpAfterCheck(srcExp[p], SOURCE_WINDOW)]
          /\ srcMemo' = [srcMemo EXCEPT ![p] = memo]
          /\ netCount' = [netCount EXCEPT ![u] = @ + 1]
    /\ viaNet' = [viaNet EXCEPT ![w] = TRUE]
    /\ pc' = [pc EXCEPT ![w] = "net"]
    /\ UNCHANGED <<now, started, ticks, proc, feeds, store, lock, feedMemo, feedMemoAt, feedExp, arg, cache,
                   req, ret>>

\* requests.get(url, timeout=5) returns a response, with any status
NetResponse(w, r) ==
    /\ pc[w] = "net"
    /\ srcMemo' = [srcMemo EXCEPT ![proc[w]][UrlOf(arg[w])] = r]
    /\ req' = [req EXCEPT ![w] = r]
    /\ pc' = [pc EXCEPT ![w] = "got"]
    /\ UNCHANGED <<now, started, ticks, proc, feeds, store, lock, srcExp, feedMemo, feedMemoAt, feedExp,
                   netCount, arg, cache, viaNet, ret>>

\* requests.get raises (Timeout, ConnectionError): nothing in get_source_url
\* or feed catches it
NetRaises(w) ==
    /\ pc[w] = "net"
    /\ Abandon(w)
    /\ Leave(w, Exc("RequestException"))
    /\ UNCHANGED <<now, started, ticks, proc, feeds, store, srcMemo, srcExp, feedExp, netCount>>

(* lines 234-244 *)

\* the payload stored and saved before the status is looked at
RefreshNotOkSaves(w) ==
    /\ pc[w] = "got"
    /\ ~req[w].ok
    /\ store' = [store EXCEPT ![arg[w]] =
                    Written([cache[w] EXCEPT !.raw = req[w].text])]
    /\ Abandon(w)
    /\ Leave(w, Response(cache[w]))
    /\ UNCHANGED <<now, started, ticks, proc, feeds, srcMemo, srcExp, feedExp,
                   netCount>>

RefreshNotOk(w) ==
    /\ pc[w] = "got"
    /\ ~req[w].ok
    /\ Abandon(w)
    /\ Leave(w, Response(cache[w]))
    /\ UNCHANGED <<now, started, ticks, proc, feeds, store, srcMemo, srcExp, feedExp, netCount>>

RefreshRenderRaises(w) ==
    /\ pc[w] = "got"
    /\ req[w].ok
    /\ ~CanRender(req[w].text)
    /\ Abandon(w)
    /\ Leave(w, Exc("RenderError"))
    /\ UNCHANGED <<now, started, ticks, proc, feeds, store, srcMemo, srcExp, feedExp, netCount>>

RefreshRendered(w) ==
    /\ pc[w] = "got"
    /\ req[w].ok
    /\ CanRender(req[w].text)
    /\ cache' = [cache EXCEPT ![w] =
                    SetRss([cache[w] EXCEPT !.raw = req[w].text],
                           GenerateRss(req[w].text), now)]
    /\ pc' = [pc EXCEPT ![w] = "save"]
    /\ UNCHANGED <<now, started, ticks, proc, feeds, store, lock, srcMemo, srcExp, feedMemo, feedMemoAt,
                   feedExp, netCount, arg, req, viaNet, ret>>

(* lines 247, 184-187: open(..., 'w') empties the file, fd.write fills it *)

\* the socket closed before the file is opened for writing
SaveOpenAfterClose(w) ==
    /\ pc[w] = "save"
    /\ lock' = [lock EXCEPT ![arg[w]] = Free]
    /\ store' = [store EXCEPT ![arg[w]] = Truncated]
    /\ pc' = [pc EXCEPT ![w] = "write"]
    /\ UNCHANGED <<now, started, ticks, proc, feeds, srcMemo, srcExp, feedMemo, feedMemoAt,
                   feedExp, netCount, arg, cache, req, viaNet, ret>>

SaveOpen(w) ==
    /\ pc[w] = "save"
    /\ store' = [store EXCEPT ![arg[w]] = Truncated]
    /\ pc' = [pc EXCEPT ![w] = "write"]
    /\ UNCHANGED <<now, started, ticks, proc, feeds, lock, srcMemo, srcExp, feedMemo, feedMemoAt, feedExp,
                   netCount, arg, cache, req, viaNet, ret>>

SaveWrite(w) ==
    /\ pc[w] = "write"
    /\ store' = [store EXCEPT ![arg[w]] = Written(cache[w])]
    /\ pc' = [pc EXCEPT ![w] = "close"]
    /\ UNCHANGED <<now, started, ticks, proc, feeds, lock, srcMemo, srcExp, feedMemo, feedMemoAt, feedExp,
                   netCount, arg, cache, req, viaNet, ret>>

(* line 248 *)
Close(w) ==
    /\ pc[w] = "close"
    /\ lock' = [lock EXCEPT ![arg[w]] = Free]
    /\ pc' = [pc EXCEPT ![w] = "respond"]
    /\ UNCHANGED <<now, started, ticks, proc, feeds, store, srcMemo, srcExp, feedMemo, feedMemoAt, feedExp,
                   netCount, arg, cache, req, viaNet, ret>>

(* line 249 *)
Respond(w) ==
    /\ pc[w] = "respond"
    /\ Leave(w, Response(cache[w]))
    /\ UNCHANGED <<now, started, ticks, proc, feeds, store, lock, srcMemo, srcExp, feedExp,
                   netCount>>

\* the interpreter finalises a socket object nothing refers to any more
Finalise(n) ==
    /\ lock[n] = Orphan
    /\ lock' = [lock EXCEPT ![n] = Free]
    /\ UNCHANGED <<now, started, ticks, proc, feeds, store, srcMemo, srcExp, feedMemo, feedMemoAt, feedExp,
                   netCount, pc, arg, cache, req, viaNet, ret>>

Tick(d) ==
    /\ ticks < MaxTicks
    /\ now' = now + d
    /\ ticks' = ticks + 1
    /\ UNCHANGED <<started, proc, feeds, store, lock, srcMemo, srcExp, feedMemo, feedMemoAt, feedExp,
                   netCount, pc, arg, cache, req, viaNet, ret>>

Next ==
    \/ \E w \in Workers, n \in feeds : CallHit(w, n)
    \/ \E w \in Workers, n \in feeds : CallMiss(w, n)
    \/ \E w \in Workers : LoadUndecodable(w)
    \/ \E w \in Workers : LoadFresh(w)
    \/ \E w \in Workers : LoadStale(w)
    \/ \E w \in Workers : BindOk(w)
    \/ \E w \in Workers : BindFails(w)
    \/ \E w \in Workers : FetchHit(w)
    \/ \E w \in Workers : FetchMiss(w)
    \/ \E w \in Workers, r \in {OkResp(p) : p \in Pages} \cup {BadResp} : NetResponse(w, r)
    \/ \E w \in Workers : NetRaises(w)
    \/ \E w \in Workers : RefreshNotOk(w)
    \/ \E w \in Workers : RefreshRenderRaises(w)
    \/ \E w \in Workers : RefreshRendered(w)
    \/ \E w \in Workers : SaveOpen(w)
    \/ \E w \in Workers : SaveWrite(w)
    \/ \E w \in Workers : Close(w)
    \/ \E w \in Workers : Respond(w)
    \/ \E n \in Names : Finalise(n)
    \/ \E d \in TickSteps : Tick(d)

Spec == Init /\ [][Next]_vars

SpecTwoFeeds == InitTwoFeeds /\ [][Next]_vars

-----------------------------------------------------------------------------
(* Properties *)

\* the refresh section of feed(name): after a successful bind, up to close
RefreshSection == {"fetch", "net", "got", "save", "write", "close"}
\* feed(name) positions reached only after loading a stale entry
PastLoad == RefreshSection \cup {"lock", "respond"}
InSection(w, n) == arg[w] = n /\ pc[w] \in RefreshSection
\* a step in which worker w's call of feed ends (returns or raises)
Leaves(w) == pc[w] # "idle" /\ pc'[w] = "idle"
\* a step taken by worker w inside feed
Steps(w) == pc'[w] # pc[w]

\* C1: for every feed name at most one worker is inside the refresh section
\* (between its successful bind and its close), that worker is the holder of
\* the name's lock, and at most one upstream request for the name is in flight.
C1_OneRefreshPerFeed ==
    \A n \in Names :
        /\ Cardinality({w \in Workers : InSection(w, n)}) <= 1
        /\ \A w \in Workers : InSection(w, n) => lock[n] = w
        /\ Cardinality({w \in Workers : arg[w] = n /\ pc[w] = "net"}) <= 1

\* two workers contend for one feed: one has its request in flight, the other
\* has loaded the stale entry and is about to bind
C1_Witness ==
    \E w1, w2 \in Workers :
        /\ w1 # w2
        /\ arg[w1] = arg[w2]
        /\ pc[w1] = "net"
        /\ pc[w2] = "lock"

\* C2: when two workers are inside feed(name) for the same name and both
\* loaded the entry while it was stale, at most one of them sends a request
\* to the origin (the other serves what it loaded without fetching).
C2_ExactlyOneFetches ==
    \A w1, w2 \in Workers :
        (/\ w1 # w2
         /\ arg[w1] = arg[w2]
         /\ pc[w1] \in PastLoad
         /\ pc[w2] \in PastLoad)
        => ~(viaNet[w1] /\ viaNet[w2])

\* C3: a call of feed(name) that loaded an entry holding a rendered document
\* (or is loading one that is fully written) never ends in an error: it
\* returns a document whatever the upstream, the rendering and the other
\* workers do.
C3_NeverFailsOnceRefreshed ==
    [][\A w \in Workers :
          (/\ Leaves(w)
           /\ \/ cache[w].rss # None
              \/ pc[w] = "load" /\ store[arg[w]].file = "written")
          => ret'[w].kind = "ok"]_vars

\* C4: from the bind to the return of a worker whose fetch came back with a
\* non-success status no step changes the persisted entry of the feed, and
\* the worker returns the rendered document of the entry it loaded.
C4_FailedFetchKeepsEntry ==
    [][\A w \in Workers :
          /\ (pc[w] \in {"fetch", "net"} \/ (pc[w] = "got" /\ ~req[w].ok))
             => store'[arg[w]] = store[arg[w]]
          /\ (pc[w] = "got" /\ ~req[w].ok /\ Steps(w))
             => /\ Leaves(w)
                /\ store' = store
                /\ cache[w].rss # None => ret'[w] = Doc(cache[w].rss)]_vars

\* one process, one request sent, answered with a non-success status: the
\* worker has left the refresh section with the old document and the file
\* still holds the old entry
C4_Witness ==
    \E w \in Workers :
        /\ \A v \in Workers : proc[v] = proc[w]
        /\ pc[w] = "idle"
        /\ ret[w] = Doc("R1")
        /\ lock["npr"] = Orphan
        /\ netCount["npr"] = 1
        /\ srcMemo[proc[w]]["npr"] = BadResp
        /\ store["npr"] = Written([raw |-> "P1", rss |-> "R1", timestamp |-> 50])

\* C5: a worker that loads an entry of age <= CACHE_TIMEOUT ends the call in
\* that step, returning the entry's rendered document, and the step leaves
\* the locks, the fetch counter, the rate-limit memo and the persisted
\* entries as they were; so does a worker that finds no file at such a clock.
C5_FreshServedUntouched ==
    [][\A w \in Workers :
          (/\ pc[w] = "load"
           /\ Steps(w)
           /\ store[arg[w]].file # "truncated"
           /\ now - store[arg[w]].obj.timestamp <= CACHE_TIMEOUT)
          => /\ Leaves(w)
             /\ store[arg[w]].file = "written"
                => ret'[w] = Doc(store[arg[w]].obj.rss)
             /\ lock' = lock
             /\ netCount' = netCount
             /\ srcMemo' = srcMemo
             /\ srcExp' = srcExp
             /\ store' = store]_vars

\* a worker of the second process has served the document another process
\* rendered, from the fresh file, its own process having fetched nothing
C5_Witness ==
    \E w \in Workers :
        /\ proc[w] = "p2"
        /\ pc[w] = "idle"
        /\ ret[w] = Doc("R2")
        /\ srcMemo["p2"]["npr"] = NoResp
        /\ srcMemo["p1"]["npr"] = OkResp("P2")
        /\ netCount["npr"] = 1
        /\ store["npr"].file = "written"
        /\ now - store["npr"].obj.timestamp <= CACHE_TIMEOUT

\* C6: a worker never reads the cache file while it is partially written:
\* every load sees the complete entry of before or of after a save.
C6_NoPartialRead ==
    [][\A w \in Workers :
          (pc[w] = "load" /\ Steps(w)) => store[arg[w]].file # "truncated"]_vars

\* C7: while less than SOURCE_WINDOW has passed since the first request could
\* be made, a call of get_source_url for a url whose response is memoised
\* returns that response and sends nothing to the origin.
C7_OneRequestPerWindow ==
    [][\A w \in Workers :
          (/\ pc[w] = "fetch"
           /\ Steps(w)
           /\ now - started < SOURCE_WINDOW
           /\ srcMemo[proc[w]][UrlOf(arg[w])] # NoResp)
          => /\ req'[w] = srcMemo[proc[w]][UrlOf(arg[w])]
             /\ netCount' = netCount]_vars

\* C8: every request in flight ends with a response value handed to feed,
\* which goes on to look at its status; none ends the call with an exception.
C8_TimeoutIsAResponse ==
    [][\A w \in Workers :
          (pc[w] = "net" /\ Steps(w)) => (pc'[w] = "got" /\ ~Leaves(w))]_vars

\* C9: when the fetched page cannot be rendered, the call leaves the
\* persisted entry unchanged and returns the document it loaded.
C9_RenderFailureServesStale ==
    [][\A w \in Workers :
          (/\ pc[w] = "got"
           /\ Steps(w)
           /\ req[w].ok
           /\ ~CanRender(req[w].text)
           /\ cache[w].rss # None)
          => /\ store' = store
             /\ ret'[w] = Doc(cache[w].rss)]_vars

\* C10: a call that found no cache file, with the lock free and the origin
\* answering with success, does not end before it has rendered and saved: it
\* returns a document and leaves an entry holding the fetched payload and a
\* timestamp other than the default, at every clock value.
C10_ColdStartRefreshes ==
    [][\A w \in Workers :
          (/\ Leaves(w)
           /\ \/ pc[w] = "load" /\ store[arg[w]].file = "absent"
                                /\ lock[arg[w]] = Free
              \/ pc[w] = "got" /\ cache[w] = NewCache /\ req[w].ok)
          => /\ ret'[w].kind = "ok"
             /\ store'[arg[w]].file = "written"
             /\ store'[arg[w]].obj.raw # None
             /\ store'[arg[w]].obj.timestamp # DEFAULT_TIMESTAMP]_vars

\* C11: a call whose entry has no rendered document (no file, or rss None)
\* and which cannot refresh it (the bind fails, the origin answers with a
\* failure status, or the request raises) ends with an error; and no call ever
\* returns, nor does the memo ever hold, a response built from None.
C11_NoDocumentFails ==
    [][\A w \in Workers :
          /\ (/\ Leaves(w)
              /\ cache[w].rss = None
              /\ \/ pc[w] = "lock"
                 \/ pc[w] = "net"
                 \/ pc[w] = "got" /\ ~req[w].ok)
             => (ret'[w].kind = "error" /\ feedMemo' = feedMemo)
          /\ ret'[w] # Doc(None)
          /\ \A n \in Names : feedMemo'[proc[w]][n] # Doc(None)]_vars

\* a cold call lost the bind to a worker that is refreshing, at a clock value
\* at which the default entry is stale, and ended with the error
C11_Witness ==
    \E w, v \in Workers :
        /\ now > CACHE_TIMEOUT
        /\ ticks = 0
        /\ store["npr"].file = "absent"
        /\ InSection(v, "npr")
        /\ pc[w] = "idle"
        /\ ret[w] = Exc("TypeError")

\* what the wrapper of feed hands to a call for name n made now in process p
\* without running the body (NoOutcome: the body runs)
MemoAnswer(p, n) == MemoAfterCheck(feedMemo[p], feedExp[p], NoOutcome)[n]

\* C12 as stated: while a feed's file holds an entry written by a refresh and
\* that entry's age is at most CACHE_TIMEOUT, a call for the feed made by an
\* idle worker that the memo answers returns that entry's document.  Stated
\* for the cases where the origin was asked once only, so that no second
\* refresh is involved.
C12_LaterCallsSameDocument ==
    \A w \in Workers : \A n \in feeds :
        (/\ pc[w] = "idle"
         /\ netCount[UrlOf(n)] = 1
         /\ store[n].file = "written"
         /\ Age(store[n].obj, now) <= CACHE_TIMEOUT
         /\ MemoAnswer(proc[w], n) # NoOutcome)
        => MemoAnswer(proc[w], n) = Doc(store[n].obj.rss)

\* C12, amended: a refresh that rendered stamps its entry with the clock of
\* that moment (age 0) together with the new document, writes exactly that
\* entry to the file and returns its document; and every call whose body
\* loads a written entry of age at most CACHE_TIMEOUT ends at once with that
\* entry's document, without a request to the origin and without a write.
C12_RefreshThenFreshServed ==
    [][\A w \in Workers :
          /\ (pc[w] = "got" /\ pc'[w] = "save")
             => /\ Age(cache'[w], now) = 0
                /\ cache'[w].rss = GenerateRss(req[w].text)
                /\ cache'[w].raw = req[w].text
          /\ (pc[w] = "write" /\ Steps(w))
             => /\ store'[arg[w]] = Written(cache[w])
                /\ cache[w].rss # None
                /\ Age(cache[w], now) \in 0..(now - started)
          /\ (pc[w] = "respond" /\ Steps(w))
             => ret'[w] = Doc(cache[w].rss)
          /\ (/\ pc[w] = "load"
              /\ Steps(w)
              /\ store[arg[w]].file = "written"
              /\ Age(store[arg[w]].obj, now) <= CACHE_TIMEOUT)
             => /\ Leaves(w)
                /\ ret'[w] = Doc(store[arg[w]].obj.rss)
                /\ netCount' = netCount
                /\ store' = store]_vars

\* one refresh wrote R2 at the start; after the clock advanced by 50 the
\* other process dropped its memo and its worker was served R2 from the file
C12_Witness ==
    \E w \in Workers :
        /\ proc[w] = "p2"
        /\ ticks = 1
        /\ now = started + 50
        /\ store["npr"] = Written([raw |-> "P2", rss |-> "R2", timestamp |-> started])
        /\ netCount["npr"] = 1
        /\ feedExp["p2"] = now + FEED_WINDOW
        /\ pc[w] = "idle"
        /\ ret[w] = Doc("R2")

\* C13: a response that the memo of feed hands to a call made now was stored
\* by the memo at most FEED_WINDOW before now (in fact less than that): the
\* wrapper compares the clock with the expiration on the call and clears the
\* memo first when the expiration has passed, and the expiration is never
\* later than FEED_WINDOW after the moment any entry it covers was stored.
C13_MemoAnswerIsRecent ==
    \A p \in Procs : \A n \in Names :
        /\ MemoAnswer(p, n) # NoOutcome
           => /\ MemoAnswer(p, n) = feedMemo[p][n]
              /\ feedMemoAt[p][n] # NotStored
              /\ now - feedMemoAt[p][n] < FEED_WINDOW
              /\ now < feedExp[p]
        /\ feedMemoAt[p][n] = NotStored <=> feedMemo[p][n] = NoOutcome
        /\ feedMemoAt[p][n] # NotStored
           => (feedMemoAt[p][n] <= now /\ feedExp[p] <= feedMemoAt[p][n] + FEED_WINDOW)

\* the clock advanced past the expiration, a call cleared the memo, the body
\* ran again and its response, stored at the new clock value, is what the
\* memo hands out now
C13_Witness ==
    \E w \in Workers :
        /\ ticks = 1
        /\ pc[w] = "idle"
        /\ feedExp[proc[w]] = now + FEED_WINDOW
        /\ feedMemoAt[proc[w]]["npr"] = now
        /\ MemoAnswer(proc[w], "npr") = Doc("R1")
        /\ ret[w] = Doc("R1")

\* C14: of the requests for one feed name that the threads of one worker
\* process take at the same clock value (hence within one memo window), at
\* most one is running the body of feed at any moment; the others wait for,
\* or are answered from, the memo.
C14_OneBodyPerWindow ==
    \A w, v \in Workers :
        (/\ w # v
         /\ proc[w] = proc[v]
         /\ ticks = 0
         /\ pc[w] # "idle"
         /\ pc[v] # "idle")
        => arg[w] # arg[v]

\* C15: the socket bound to a feed's lock address is open only while the
\* worker that bound it is between its bind and its close; once that worker
\* has left feed, by return or by exception, the address is free again.
C15_LockReleasedOnEveryExit ==
    \A n \in Names :
        \/ lock[n] = Free
        \/ lock[n] \in Workers /\ InSection(lock[n], n)

\* C16: every step that changes a feed's cache file is a step of save_cache
\* taken by the worker that holds the feed's lock before and after the step;
\* a call that ends at the fresh test, at a failed bind or at a response with
\* a failure status changes no file.
C16_OnlyTheHolderWrites ==
    [][/\ \A n \in Names :
            store'[n] # store[n]
            => \E w \in Workers :
                  /\ arg[w] = n
                  /\ pc[w] \in {"save", "write"}
                  /\ Steps(w)
                  /\ lock[n] = w
                  /\ lock'[n] = w
       /\ \A w \in Workers :
            (/\ Leaves(w)
             /\ \/ pc[w] \in {"load", "lock"}
                \/ pc[w] = "got" /\ ~req[w].ok)
            => store' = store]_vars

\* a worker has written its entry and still holds the lock, while the other
\* worker has lost the bind and returned the stale document
C16_Witness ==
    \E w, v \in Workers :
        /\ pc[w] = "close"
        /\ lock[arg[w]] = w
        /\ store[arg[w]] = Written(cache[w])
        /\ v # w
        /\ pc[v] = "idle"
        /\ ret[v] = Doc("R1")
        /\ cache[w].rss = "R2"
        /\ netCount[UrlOf(arg[w])] = 1

\* C17: a call that finds no cache file fails the freshness test with its
\* default entry at every clock value: its step from the load goes on to the
\* bind of the lock and never ends the call.
C17_DefaultEntryNeverFresh ==
    [][\A w \in Workers :
          (/\ pc[w] = "load"
           /\ Steps(w)
           /\ store[arg[w]].file = "absent")
          => /\ pc'[w] = "lock"
             /\ cache'[w] = NewCache]_vars

\* C18: a cache file whose entry has a timestamp other than the default holds
\* a rendered document (and the payload it was rendered from); the same is
\* true of the entry every worker has in hand.
C18_StampedEntryHasDocument ==
    /\ \A n \in Names :
          store[n].obj.timestamp # DEFAULT_TIMESTAMP
          => /\ store[n].file = "written"
             /\ store[n].obj.rss # None
             /\ store[n].obj.raw # None
    /\ \A w \in Workers :
          cache[w].timestamp # DEFAULT_TIMESTAMP => cache[w].rss # None

\* a refresh has written a stamped entry with its document, and another
\* refresh has failed at rendering
C18_Witness ==
    \E w \in Workers :
        /\ store["npr"].file = "written"
        /\ store["npr"].obj.timestamp = started
        /\ store["npr"].obj.rss = "R2"
        /\ pc[w] = "idle"
        /\ ret[w] = Exc("RenderError")

\* C20: the timestamp in a feed's cache file never goes down: a worker that
\* opens the file for writing over a written entry holds an entry whose
\* timestamp is at least the one in the file, the write puts exactly that
\* timestamp in the file, and no step replaces a written entry by one with a
\* smaller timestamp.
C20_StampNeverDecreases ==
    [][/\ \A n \in Names :
            (store[n].file = "written" /\ store'[n].file = "written")
            => store'[n].obj.timestamp >= store[n].obj.timestamp
       /\ \A w \in Workers :
            /\ (pc[w] = "save" /\ Steps(w) /\ store[arg[w]].file = "written")
               => cache[w].timestamp >= store[arg[w]].obj.timestamp
            /\ (pc[w] = "write" /\ Steps(w))
               => /\ store[arg[w]].file = "truncated"
                  /\ store'[arg[w]].file = "written"
                  /\ store'[arg[w]].obj.timestamp = cache[w].timestamp]_vars

\* the file holds an entry stamped after the clock advanced, while a worker
\* still has in hand the entry stamped 50 that it loaded from the same file
C20_Witness ==
    \E v \in Workers :
        /\ ticks = 1
        /\ pc[v] = "lock"
        /\ cache[v].timestamp = 50
        /\ store[arg[v]].file = "written"
        /\ store[arg[v]].obj.timestamp = now

\* the name worker w's step is about: the one it is called with, or the one
\* its call carries
NameOfStep(w) == IF arg[w] # None THEN arg[w] ELSE arg'[w]

\* C19: a step that a worker takes for feed A (entering feed through the
\* wrapper, or any step of the body) leaves unchanged, for every other feed
\* B: B's lock, B's cache file, the entry of B's url in the memo of
\* get_source_url, and B's entry in the memo of feed (required here only of
\* an entry stored less than FEED_WINDOW ago), in every process.
C19_FeedsIsolated ==
    [][\A w \in Workers : \A b \in Names :
          (Steps(w) /\ NameOfStep(w) # b)
          => /\ lock'[b] = lock[b]
             /\ store'[b] = store[b]
             /\ \A p \in Procs :
                   /\ (/\ feedMemoAt[p][b] # NotStored
                       /\ now - feedMemoAt[p][b] < FEED_WINDOW)
                      => feedMemo'[p][b] = feedMemo[p][b]
                   /\ srcMemo'[p][UrlOf(b)] = srcMemo[p][UrlOf(b)]]_vars

====
